---- MODULE Spec2Model ----
(***************************************************************************)
(* The two collection programs of the repository:                          *)
(*   scripts/scrape_duolingo_words.py   main()                  ("script") *)
(*   scraping/duolingo_scraper.py       scrape_duolingo_words() ("scraper")*)
(* A text is a sequence of one-character strings.  A Python dict is the    *)
(* sequence of its (key, value) items in insertion order.                  *)
(***************************************************************************)
EXTENDS Integers, Sequences, FiniteSets, TLC

\* Bounds of the modelled page: list items per extraction, h2 headings.
MaxItems == 2
MaxHeaders == 2
MaxRounds == 4

\* Bounds of the store sink: term rows stored before the first call, calls.
MaxStored == 2
MaxSaves == 2

\* The value the script uses for "no expected count".
Unknown == -1

\* The number of stagnant rounds at which both loops stop.
StagnationLimit == 3

----------------------------------------------------------------------------
(* Texts *)

Digits == {"0", "1", "2", "3", "4", "5", "6", "7", "8", "9"}

digit_value(c) ==
    CASE c = "0" -> 0 [] c = "1" -> 1 [] c = "2" -> 2 [] c = "3" -> 3
      [] c = "4" -> 4 [] c = "5" -> 5 [] c = "6" -> 6 [] c = "7" -> 7
      [] c = "8" -> 8 [] c = "9" -> 9

\* Code points of the characters that occur in terms.
ord(c) ==
    CASE c = " " -> 32 [] c = "a" -> 97 [] c = "b" -> 98
      [] c = "e" -> 101 [] c = "n" -> 110 [] c = "o" -> 111
      [] c = "t" -> 116 [] c = "w" -> 119
      [] c = "x" -> 120 [] c = "y" -> 121

\* str.lower() on one character of the heading alphabet.
lower_char(c) == IF c = "W" THEN "w" ELSE IF c = "D" THEN "d" ELSE c

lower(s) == [i \in 1..Len(s) |-> lower_char(s[i])]

is_space(c) == c = " "

RECURSIVE lstrip(_)
lstrip(s) == IF s # <<>> /\ is_space(Head(s)) THEN lstrip(Tail(s)) ELSE s

RECURSIVE rstrip(_)
rstrip(s) ==
    IF s # <<>> /\ is_space(s[Len(s)])
    THEN rstrip(SubSeq(s, 1, Len(s) - 1))
    ELSE s

\* str.strip()
strip(s) == rstrip(lstrip(s))

\* needle in hay (substring test)
contains(hay, needle) ==
    \E i \in 1..(Len(hay) - Len(needle) + 1) :
        SubSeq(hay, i, i + Len(needle) - 1) = needle

\* int(s) for a text of digits.
RECURSIVE int(_)
int(s) ==
    IF s = <<>> THEN 0
    ELSE 10 * int(SubSeq(s, 1, Len(s) - 1)) + digit_value(s[Len(s)])

\* s.replace(",", "")
RECURSIVE remove_commas(_)
remove_commas(s) ==
    IF s = <<>> THEN <<>>
    ELSE IF Head(s) = "," THEN remove_commas(Tail(s))
    ELSE <<Head(s)>> \o remove_commas(Tail(s))

\* The longest prefix of s whose characters all lie in cs.
RECURSIVE span(_, _)
span(s, cs) ==
    IF s # <<>> /\ Head(s) \in cs THEN <<Head(s)>> \o span(Tail(s), cs)
    ELSE <<>>

\* Position of the first digit of s, 0 when there is none.
first_digit(s) ==
    IF \E i \in 1..Len(s) : s[i] \in Digits
    THEN CHOOSE i \in 1..Len(s) :
            s[i] \in Digits /\ \A j \in 1..(i - 1) : s[j] \notin Digits
    ELSE 0

\* re.search(r"(\d[\d,]*)", text).group(1), <<>> when there is no match.
search_digits_commas(text) ==
    IF first_digit(text) = 0 THEN <<>>
    ELSE span(SubSeq(text, first_digit(text), Len(text)), Digits \cup {","})

\* re.search(r"(\d+)", text).group(1), <<>> when there is no match.
search_digits(text) ==
    IF first_digit(text) = 0 THEN <<>>
    ELSE span(SubSeq(text, first_digit(text), Len(text)), Digits)

----------------------------------------------------------------------------
(* What a read of an element's text gives *)

Text(s) == [kind |-> "text", text |-> s]
NoText == [kind |-> "none", text |-> <<>>]
ReadFail == [kind |-> "raise", text |-> <<>>]

\* Heading texts of the page.
HeadingTexts ==
    { <<"W", "o", "r", "d", "s">>,
      <<"1", ",", "2", "3", "4", " ", "w", "o", "r", "d", "s">>,
      <<"2", " ", "w", "o", "r", "d", "s">>,
      <<"3", " ", "w", "o", "r", "d", "s">>,
      <<"0", " ", "w", "o", "r", "d", "s">>,
      <<"7", " ", "d", "a", "y", "s">> }

RECURSIVE SeqsUpTo(_, _)
SeqsUpTo(S, n) ==
    IF n = 0 THEN {<<>>}
    ELSE LET shorter == SeqsUpTo(S, n - 1)
         IN  shorter \cup {Append(q, e) : q \in shorter, e \in S}

Headings == SeqsUpTo(HeadingTexts, MaxHeaders)

\* Reads of the h3 and of the p of one list item.
H3Reads == {Text(<<"a">>), Text(<<" ", "b", " ">>), Text(<<" ">>), ReadFail}
PReads == {Text(<<"x">>), Text(<<"y">>), Text(<<>>), NoText}

Items == [h3 : H3Reads, p : PReads]

Pages == SeqsUpTo(Items, MaxItems)

----------------------------------------------------------------------------
(* Expected-count readers *)

\* scripts: parse_expected_count
parse_expected_count(text) ==
    IF search_digits_commas(text) = <<>> THEN Unknown
    ELSE int(remove_commas(search_digits_commas(text)))

\* scripts: the first h2 that has the text "words" (has_text ignores case),
\* NoText when the locator matches nothing.
first_words_h2(h2s) ==
    LET hits == {i \in 1..Len(h2s) : contains(lower(h2s[i]), <<"w", "o", "r", "d", "s">>)}
    IN  IF hits = {} THEN NoText
        ELSE Text(h2s[CHOOSE i \in hits : \A j \in hits : i <= j])

\* scripts: get_expected_count; inner_text() of no element raises and the
\* except branch returns -1.
get_expected_count(h2s) ==
    IF first_words_h2(h2s).kind = "text"
    THEN parse_expected_count(strip(first_words_h2(h2s).text))
    ELSE Unknown

\* scraping: the headers _get_expected_word_count returns from.
count_headers(h2s) ==
    {i \in 1..Len(h2s) :
        /\ h2s[i] # <<>>
        /\ contains(lower(h2s[i]), <<"w", "o", "r", "d">>)
        /\ search_digits(h2s[i]) # <<>>}

\* scraping: _get_expected_word_count; raised is the RuntimeError after
\* the loop.
_get_expected_word_count(h2s) ==
    IF count_headers(h2s) = {}
    THEN [raised |-> TRUE, text |-> NoText, value |-> Unknown]
    ELSE LET i == CHOOSE i \in count_headers(h2s) :
                      \A j \in count_headers(h2s) : i <= j
         IN  [raised |-> FALSE, text |-> Text(h2s[i]),
              value |-> int(search_digits(h2s[i]))]

----------------------------------------------------------------------------
(* Dicts: the sequence of (key, value) items in insertion order.  An item  *)
(* is <<word, trans>>: for the script the dict key is the whole tuple, for *)
(* the scraper the key is the word and the value the translation.          *)

items_of(d) == {d[i] : i \in 1..Len(d)}

\* A list in the place of the dict: the item is appended, present or not.
tuple_setitem_append(d, e) == Append(d, e)

\* scripts: results[(word, trans)] = None
tuple_setitem(d, e) ==
    IF \E i \in 1..Len(d) : d[i] = e THEN d ELSE Append(d, e)

\* scraping: words[target] = english
str_setitem(d, e) ==
    IF \E i \in 1..Len(d) : d[i][1] = e[1]
    THEN [i \in 1..Len(d) |-> IF d[i][1] = e[1] THEN e ELSE d[i]]
    ELSE Append(d, e)

\* scripts: collected.update(visible)
RECURSIVE tuple_update(_, _)
tuple_update(d, u) ==
    IF u = <<>> THEN d
    ELSE tuple_update(tuple_setitem(d, Head(u)), Tail(u))

\* scraping: collected.update(current)
RECURSIVE str_update(_, _)
str_update(d, u) ==
    IF u = <<>> THEN d
    ELSE str_update(str_setitem(d, Head(u)), Tail(u))

----------------------------------------------------------------------------
(* Extractors *)

\* scripts: one pass of the for loop of extract_visible_words.  A child
\* that is missing or whose inner_text() raises takes the except branch.
extract_item(results, li) ==
    IF li.h3.kind # "text" \/ li.p.kind # "text" THEN results
    ELSE IF strip(li.h3.text) # <<>> /\ strip(li.p.text) # <<>>
         THEN tuple_setitem(results, <<strip(li.h3.text), strip(li.p.text)>>)
         ELSE results

\* scripts: extract_visible_words
RECURSIVE extract_visible_words(_)
extract_visible_words(lis) ==
    IF lis = <<>> THEN <<>>
    ELSE extract_item(extract_visible_words(SubSeq(lis, 1, Len(lis) - 1)),
                      lis[Len(lis)])

\* scraping: one pass of the for loop of _scrape_visible_words.  Nothing
\* catches a text_content() that raises: it leaves the function.
scrape_item(r, li) ==
    IF r.raised THEN r
    ELSE IF li.h3.kind = "raise" \/ li.p.kind = "raise"
         THEN [raised |-> TRUE, words |-> r.words]
    ELSE IF li.h3.kind = "none" \/ li.p.kind = "none"
            \/ li.h3.text = <<>> \/ li.p.text = <<>>
         THEN r
    ELSE IF strip(li.h3.text) # <<>> /\ strip(li.p.text) # <<>>
         THEN [raised |-> FALSE,
               words |-> str_setitem(r.words,
                                     <<strip(li.h3.text), strip(li.p.text)>>)]
         ELSE r

\* scraping: _scrape_visible_words
RECURSIVE _scrape_visible_words(_)
_scrape_visible_words(lis) ==
    IF lis = <<>> THEN [raised |-> FALSE, words |-> <<>>]
    ELSE scrape_item(_scrape_visible_words(SubSeq(lis, 1, Len(lis) - 1)),
                     lis[Len(lis)])

----------------------------------------------------------------------------
(* Reveal-more drivers.  What one strategy meets on the page: "click" a    *)
(* control it can click, "none" no such control, "error" its lookup or     *)
(* its click raises.                                                       *)

StrategyOutcomes == {"click", "none", "error"}

\* One driver call: the strategies tried so far in their order, the clicks
\* performed, the strategies whose try raised, the strategy that clicked
\* (0 for none), whether the call has returned and whether it raised.
NoCall ==
    [tried |-> <<>>, clicks |-> 0, raised_in |-> {}, clicked |-> 0,
     returned |-> FALSE, raised |-> FALSE]

\* A try block whose click is not followed by "return True".
try_strategy_no_return(st, i, o) ==
    IF st.returned THEN st
    ELSE IF o = "click"
         THEN [st EXCEPT !.tried = Append(@, i), !.clicks = @ + 1,
                         !.clicked = i]
    ELSE IF o = "error"
         THEN [st EXCEPT !.tried = Append(@, i), !.raised_in = @ \cup {i}]
    ELSE [st EXCEPT !.tried = Append(@, i)]

\* scripts: one try/except block of click_more_if_possible: a click is
\* followed by "return True", an exception by pass/continue.
try_strategy(st, i, o) ==
    IF st.returned THEN st
    ELSE IF o = "click"
         THEN [st EXCEPT !.tried = Append(@, i), !.clicks = @ + 1,
                         !.clicked = i, !.returned = TRUE]
    ELSE IF o = "error"
         THEN [st EXCEPT !.tried = Append(@, i), !.raised_in = @ \cup {i}]
    ELSE [st EXCEPT !.tried = Append(@, i)]

\* scripts: click_more_if_possible tries 1) the ARIA role/name, 2) the
\* button text variants, 3) the text inside the words section, and ends
\* with "return False".
click_more_if_possible(out) ==
    [try_strategy(try_strategy(try_strategy(NoCall, 1, out[1]), 2, out[2]),
                  3, out[3])
        EXCEPT !.returned = TRUE]

\* scraping: one strategy of _click_more_if_available: a click is followed
\* by "return True"; nothing catches an exception, it leaves the call.
plain_strategy(st, i, o) ==
    IF st.returned \/ st.raised THEN st
    ELSE IF o = "click"
         THEN [st EXCEPT !.tried = Append(@, i), !.clicks = @ + 1,
                         !.clicked = i, !.returned = TRUE]
    ELSE IF o = "error"
         THEN [st EXCEPT !.tried = Append(@, i), !.raised_in = @ \cup {i},
                         !.raised = TRUE]
    ELSE [st EXCEPT !.tried = Append(@, i)]

\* scraping: _click_more_if_available tries 1) the role, 2) the button
\* text, and ends with "return False".
_click_more_if_available(out) ==
    LET st == plain_strategy(plain_strategy(NoCall, 1, out[1]), 2, out[2])
    IN  [st EXCEPT !.returned = ~st.raised]

----------------------------------------------------------------------------
(* Output order *)

\* s < t for two Python strings
RECURSIVE str_lt(_, _)
str_lt(s, t) ==
    IF t = <<>> THEN FALSE
    ELSE IF s = <<>> THEN TRUE
    ELSE IF Head(s) = Head(t) THEN str_lt(Tail(s), Tail(t))
    ELSE ord(Head(s)) < ord(Head(t))

\* e < f for two tuples of two strings
tuple_lt(e, f) ==
    IF e[1] = f[1] THEN str_lt(e[2], f[2]) ELSE str_lt(e[1], f[1])

remove_at(d, i) == SubSeq(d, 1, i - 1) \o SubSeq(d, i + 1, Len(d))

\* The items written in the dict's own order, without the sort.
unsorted(d) == d

\* sorted(collected.keys()), sorted(words.items())
RECURSIVE sorted(_)
sorted(d) ==
    IF d = <<>> THEN <<>>
    ELSE LET m == CHOOSE i \in 1..Len(d) :
                      \A j \in 1..Len(d) : ~tuple_lt(d[j], d[i])
         IN  <<d[m]>> \o sorted(remove_at(d, m))

----------------------------------------------------------------------------
(* State *)

VARIABLES
    prog,            \* the program that runs: "script" or "scraper"
    pc,              \* the statement the program is at
    txt,             \* the heading text the expected count was read from
    expected,        \* expected / expected_total
    collected,       \* the accumulator dict
    visible,         \* visible / current: the dict of the last extraction
    before,          \* scripts: len(collected) before the update
    last_count,      \* scraping: len(collected) of the round before
    stagnant_rounds, \* stagnant_rounds / stagnation_rounds
    loaded_more,     \* loaded_more / clicked: the driver's last result
    strategy,        \* the strategy that clicked in the last driver call
    call,            \* the course of the last driver call
    settled,         \* scripts: the extra scroll+wait ran in this round
    exit,            \* how the loop was left
    header,          \* the header row of the output file
    rows,            \* the records of the output file
    log,             \* the kinds of lines printed
    seen,            \* every pair an extraction has returned in this run
    zeroRuns,        \* consecutive extraction rounds that added no pair
    driverInRound,   \* the driver was invoked since the last extraction
    rounds,          \* extraction rounds run so far, counted to MaxRounds
    extracts,        \* extractions merged in the current round
    db_url,          \* DATABASE_URL is set
    languages,       \* the language table: codes, a row's id is its index
    terms,           \* the term table: committed rows in insertion order
    returns          \* what each save_words_to_database call so far returned

vars == <<prog, pc, txt, expected, collected, visible, before, last_count,
          stagnant_rounds, loaded_more, strategy, call, settled, exit,
          header, rows, log, seen, zeroRuns, driverInRound, rounds,
          extracts, db_url, languages, terms, returns>>

\* The state of the store sink, which the collection loop never touches.
sinkvars == <<db_url, languages, terms, returns>>

\* The loop's state before its first step.
LoopInit ==
    /\ txt = NoText
    /\ expected = Unknown
    /\ visible = <<>>
    /\ before = 0
    /\ last_count = -1
    /\ stagnant_rounds = 0
    /\ loaded_more = FALSE
    /\ strategy = 0
    /\ call = NoCall
    /\ settled = FALSE
    /\ exit = "none"
    /\ header = <<>>
    /\ rows = <<>>
    /\ log = {}
    /\ seen = {}
    /\ zeroRuns = 0
    /\ driverInRound = FALSE
    /\ rounds = 0
    /\ extracts = 0

Init ==
    /\ prog \in {"script", "scraper"}
    /\ pc = "start"
    /\ collected = <<>>
    /\ LoopInit
    /\ db_url = FALSE
    /\ languages = <<>>
    /\ terms = <<>>
    /\ returns = <<>>

\* The bookkeeping of one extraction round that merged u into collected,
\* giving merged.
RoundBooks(u, merged) ==
    /\ seen' = seen \cup items_of(u)
    /\ zeroRuns' = IF items_of(merged) \subseteq items_of(collected)
                   THEN zeroRuns + 1 ELSE 0
    /\ rounds' = IF rounds < MaxRounds THEN rounds + 1 ELSE rounds
    /\ extracts' = extracts + 1

----------------------------------------------------------------------------
(* scripts/scrape_duolingo_words.py: main *)

\* expected = await get_expected_count(page)
main_get_expected ==
    /\ prog = "script" /\ pc = "start"
    /\ \E h2s \in Headings :
          /\ txt' = first_words_h2(h2s)
          /\ expected' = get_expected_count(h2s)
    /\ pc' = "extract"
    /\ UNCHANGED <<prog, collected, visible, before, last_count,
                   stagnant_rounds, loaded_more, strategy, call, settled, exit,
                   header, rows, log, seen, zeroRuns, rounds,
                   driverInRound, extracts>>
    /\ UNCHANGED sinkvars

\* What extract_visible_words can return on the pages of the model.
Extractions == {extract_visible_words(page) : page \in Pages}

\* visible = ...; before = len(collected); collected.update(visible)
main_extract ==
    /\ prog = "script" /\ pc = "extract"
    /\ \E u \in Extractions :
          LET merged == tuple_update(collected, u)
          IN  /\ visible' = u
              /\ before' = Len(collected)
              /\ collected' = merged
              /\ RoundBooks(u, merged)
    /\ pc' = "count"
    /\ UNCHANGED <<prog, txt, expected, last_count, stagnant_rounds,
                   loaded_more, strategy, call, settled, exit, header, rows, log,
                   driverInRound>>
    /\ UNCHANGED sinkvars

\* The count test with > in the place of >=.
main_reached_strict(exp, after) == exp # Unknown /\ after > exp

\* if expected != -1 and after >= expected
main_reached(exp, after) == exp # Unknown /\ after >= exp

main_count_check ==
    /\ prog = "script" /\ pc = "count"
    /\ IF main_reached(expected, Len(collected))
       THEN /\ log' = log \cup {"reached"}
            /\ exit' = "DONE"
            /\ pc' = "write"
       ELSE /\ pc' = "click"
            /\ UNCHANGED <<log, exit>>
    /\ UNCHANGED <<prog, txt, expected, collected, visible, before,
                   last_count, stagnant_rounds, loaded_more, strategy, call,
                   settled, header, rows, seen, zeroRuns, rounds,
                   driverInRound, extracts>>
    /\ UNCHANGED sinkvars

\* The extra scroll and wait only while the expected count is unknown.
main_settles_if_unknown(loaded, exp) == ~loaded /\ exp = Unknown

\* if not loaded_more: scroll and wait once more (expected is not read)
main_settles(loaded, exp) == ~loaded

\* loaded_more = await click_more_if_possible(page); if not loaded_more:
\* scroll and wait once more
main_click ==
    /\ prog = "script" /\ pc = "click"
    /\ \E out \in [1..3 -> StrategyOutcomes] :
          /\ call' = click_more_if_possible(out)
          /\ strategy' = click_more_if_possible(out).clicked
          /\ loaded_more' = (click_more_if_possible(out).clicked # 0)
          /\ settled' = main_settles(click_more_if_possible(out).clicked # 0,
                                     expected)
    /\ driverInRound' = TRUE
    /\ UNCHANGED extracts
    /\ pc' = "stagnation"
    /\ UNCHANGED <<prog, txt, expected, collected, visible, before,
                   last_count, stagnant_rounds, exit, header, rows, log,
                   seen, zeroRuns, rounds>>
    /\ UNCHANGED sinkvars

\* if after == before: stagnant_rounds += 1 else: stagnant_rounds = 0
main_stagnant(count, after, prev) == IF after = prev THEN count + 1 ELSE 0

\* The locals of one round are rebound before the next round reads them:
\* the back edge of the loop gives them their initial values again.
BackEdge ==
    /\ visible' = <<>>
    /\ before' = 0
    /\ loaded_more' = FALSE
    /\ strategy' = 0
    /\ call' = NoCall
    /\ settled' = FALSE
    /\ driverInRound' = FALSE
    /\ extracts' = 0

\* The stagnation test and the loop's back edge.
main_stagnation ==
    /\ prog = "script" /\ pc = "stagnation"
    /\ stagnant_rounds' = main_stagnant(stagnant_rounds, Len(collected), before)
    /\ IF stagnant_rounds' >= StagnationLimit
       THEN /\ log' = log \cup {"stalled"}
            /\ exit' = "STALLED"
            /\ pc' = "write"
            /\ UNCHANGED <<visible, before, loaded_more, strategy, call,
                           settled, driverInRound, extracts>>
       ELSE /\ pc' = "extract"
            /\ BackEdge
            /\ UNCHANGED <<log, exit>>
    /\ UNCHANGED <<prog, txt, expected, collected, last_count, header, rows,
                   seen, zeroRuns, rounds>>
    /\ UNCHANGED sinkvars

\* if expected != -1 and len(collected) != expected: print WARNING
main_warns(exp, n) == exp # Unknown /\ n # exp

\* Write output: one JSON line per key of sorted(collected.keys())
main_write ==
    /\ prog = "script" /\ pc = "write"
    /\ rows' = sorted(collected)
    /\ log' = log \cup {"wrote"}
                  \cup (IF main_warns(expected, Len(collected))
                        THEN {"WARNING"} ELSE {})
    /\ pc' = "done"
    /\ UNCHANGED <<prog, txt, expected, collected, visible, before,
                   last_count, stagnant_rounds, loaded_more, strategy, call,
                   settled, exit, header, seen, zeroRuns, rounds,
                   driverInRound, extracts>>
    /\ UNCHANGED sinkvars

----------------------------------------------------------------------------
(* scraping/duolingo_scraper.py: scrape_duolingo_words, main_async *)

\* expected_total = await _get_expected_word_count(page)
scrape_get_expected ==
    /\ prog = "scraper" /\ pc = "start"
    /\ \E h2s \in Headings :
          LET r == _get_expected_word_count(h2s)
          IN  IF r.raised
              THEN /\ exit' = "RuntimeError"
                   /\ pc' = "aborted"
                   /\ UNCHANGED <<txt, expected>>
              ELSE /\ txt' = r.text
                   /\ expected' = r.value
                   /\ pc' = "extract"
                   /\ UNCHANGED exit
    /\ UNCHANGED <<prog, collected, visible, before, last_count,
                   stagnant_rounds, loaded_more, strategy, call, settled, header,
                   rows, log, seen, zeroRuns, rounds,
                   driverInRound, extracts>>
    /\ UNCHANGED sinkvars

\* What _scrape_visible_words can do on the pages of the model.
Scrapes == {_scrape_visible_words(page) : page \in Pages}

\* current = await _scrape_visible_words(page); collected.update(current)
scrape_extract ==
    /\ prog = "scraper" /\ pc = "extract"
    /\ \E r \in Scrapes :
          LET merged == str_update(collected, r.words)
          IN  IF r.raised
              THEN /\ exit' = "ReadError"
                   /\ pc' = "aborted"
                   /\ UNCHANGED <<visible, collected, seen, zeroRuns,
                                  rounds, extracts>>
              ELSE /\ visible' = r.words
                   /\ collected' = merged
                   /\ RoundBooks(r.words, merged)
                   /\ pc' = "count"
                   /\ UNCHANGED exit
    /\ UNCHANGED <<prog, txt, expected, before, last_count, stagnant_rounds,
                   loaded_more, strategy, call, settled, header, rows, log,
                   driverInRound>>
    /\ UNCHANGED sinkvars

\* if len(collected) >= expected_total
scrape_reached(exp, n) == n >= exp

scrape_count_check ==
    /\ prog = "scraper" /\ pc = "count"
    /\ IF scrape_reached(expected, Len(collected))
       THEN /\ log' = log \cup {"reached"}
            /\ exit' = "DONE"
            /\ pc' = "finish"
       ELSE /\ pc' = "stagnation"
            /\ UNCHANGED <<log, exit>>
    /\ UNCHANGED <<prog, txt, expected, collected, visible, before,
                   last_count, stagnant_rounds, loaded_more, strategy, call,
                   settled, header, rows, seen, zeroRuns, rounds,
                   driverInRound, extracts>>
    /\ UNCHANGED sinkvars

\* if len(collected) == last_count: stagnation_rounds += 1 else: ... = 0
scrape_stagnant(count, n, prev) == IF n = prev THEN count + 1 ELSE 0

scrape_stagnation ==
    /\ prog = "scraper" /\ pc = "stagnation"
    /\ stagnant_rounds' = scrape_stagnant(stagnant_rounds, Len(collected), last_count)
    /\ last_count' = Len(collected)
    /\ IF stagnant_rounds' >= StagnationLimit
       THEN /\ log' = log \cup {"stalled"}
            /\ exit' = "STALLED"
            /\ pc' = "finish"
       ELSE /\ pc' = "click"
            /\ UNCHANGED <<log, exit>>
    /\ UNCHANGED <<prog, txt, expected, collected, visible, before,
                   loaded_more, strategy, call, settled, header, rows, seen,
                   zeroRuns, rounds,
                   driverInRound, extracts>>
    /\ UNCHANGED sinkvars

\* clicked = await _click_more_if_available(page)
scrape_click ==
    /\ prog = "scraper" /\ pc = "click"
    /\ \E out \in [1..2 -> StrategyOutcomes] :
          LET r == _click_more_if_available(out)
          IN  /\ call' = r
              /\ strategy' = r.clicked
              /\ loaded_more' = (r.clicked # 0)
              /\ IF r.raised
                 THEN exit' = "DriverError" /\ pc' = "aborted"
                 ELSE pc' = "clicked" /\ UNCHANGED exit
    /\ driverInRound' = TRUE
    /\ UNCHANGED extracts
    /\ UNCHANGED <<prog, txt, expected, collected, visible, before,
                   last_count, stagnant_rounds, settled, header, rows, log,
                   seen, zeroRuns, rounds>>
    /\ UNCHANGED sinkvars

\* A loop that calls the driver again after a click, without extracting.
scrape_clicked_retry ==
    /\ prog = "scraper" /\ pc = "clicked"
    /\ IF loaded_more
       THEN /\ pc' = "click"
            /\ BackEdge
            /\ UNCHANGED exit
       ELSE /\ exit' = "NOMORE"
            /\ pc' = "finish"
            /\ UNCHANGED <<visible, before, loaded_more, strategy, call,
                           settled, driverInRound, extracts>>
    /\ UNCHANGED <<prog, txt, expected, collected, last_count,
                   stagnant_rounds, header, rows, log, seen, zeroRuns, rounds>>
    /\ UNCHANGED sinkvars

\* if not clicked: break; otherwise the loop's back edge
scrape_clicked_test ==
    /\ prog = "scraper" /\ pc = "clicked"
    /\ IF loaded_more
       THEN /\ pc' = "extract"
            /\ BackEdge
            /\ UNCHANGED exit
       ELSE /\ exit' = "NOMORE"
            /\ pc' = "finish"
            /\ UNCHANGED <<visible, before, loaded_more, strategy, call,
                           settled, driverInRound, extracts>>
    /\ UNCHANGED <<prog, txt, expected, collected, last_count,
                   stagnant_rounds, header, rows, log, seen, zeroRuns, rounds>>
    /\ UNCHANGED sinkvars

\* print "Final collected count"; return collected;
\* main_async: save_words_to_file(words)
scrape_finish ==
    /\ prog = "scraper" /\ pc = "finish"
    /\ log' = log \cup {"final", "saved"}
    /\ header' = <<"target_language_term", "english_term">>
    /\ rows' = sorted(collected)
    /\ pc' = "done"
    /\ UNCHANGED <<prog, txt, expected, collected, visible, before,
                   last_count, stagnant_rounds, loaded_more, strategy, call,
                   settled, exit, seen, zeroRuns, rounds,
                   driverInRound, extracts>>
    /\ UNCHANGED sinkvars

----------------------------------------------------------------------------
(* scraping/duolingo_scraper.py: save_words_to_database *)

\* session.query(Language).filter(Language.code == code).first(): the id of
\* the first row with that code, 0 for None
language_id(langs, code) ==
    IF \E i \in 1..Len(langs) : langs[i] = code
    THEN CHOOSE i \in 1..Len(langs) :
             /\ langs[i] = code
             /\ \A j \in 1..(i - 1) : langs[j] # code
    ELSE 0

\* if not lang: session.add(Language(code="ar", name="Arabic")); commit
ensure_language(langs) ==
    IF language_id(langs, "ar") = 0 THEN Append(langs, "ar") ELSE langs

\* Term(language_id=..., english_term=..., target_language_term=..., ...)
Term(lang, english, target) ==
    [language_id |-> lang, english_term |-> english,
     target_language_term |-> target,
     notes |-> "Imported from Duolingo Practice Hub",
     learned |-> FALSE, correct_counter |-> 0]

\* An existence query that compares each term with the other column.
existing_swapped(stored, lang, english, target) ==
    \E i \in 1..Len(stored) :
        /\ stored[i].language_id = lang
        /\ stored[i].english_term = target
        /\ stored[i].target_language_term = english

\* session.query(Term).filter(language_id, english_term,
\* target_language_term).first() is not None
existing(stored, lang, english, target) ==
    \E i \in 1..Len(stored) :
        /\ stored[i].language_id = lang
        /\ stored[i].english_term = english
        /\ stored[i].target_language_term = target

\* for target, english in words.items(): skip an existing term, add a new
\* one.  The session does not autoflush: the query reads the committed rows.
RECURSIVE insert_terms(_, _, _, _)
insert_terms(words, stored, lang, st) ==
    IF words = <<>> THEN st
    ELSE LET target == Head(words)[1]
             english == Head(words)[2]
         IN  insert_terms(Tail(words), stored, lang,
                 IF existing(stored, lang, english, target)
                 THEN [st EXCEPT !.skipped = @ + 1]
                 ELSE [st EXCEPT !.pending =
                                    Append(@, Term(lang, english, target)),
                                 !.added = @ + 1])

\* save_words_to_database: raises without DATABASE_URL; otherwise ensures
\* the language, inserts the new terms, commits and returns the counts.
save_words_to_database(words, url, langs, stored) ==
    IF ~url
    THEN [raised |-> TRUE, languages |-> langs, terms |-> stored,
          added |-> 0, skipped |-> 0]
    ELSE LET ensured == ensure_language(langs)
             lang == language_id(ensured, "ar")
             st == insert_terms(words, stored, lang,
                       [pending |-> <<>>, added |-> 0, skipped |-> 0])
         IN  [raised |-> FALSE, languages |-> ensured,
              terms |-> stored \o st.pending,
              added |-> st.added, skipped |-> st.skipped]

\* The accumulators the scraper can hand to the sink.
Accumulators == {_scrape_visible_words(page).words : page \in Pages}

\* The language tables the store can hold before the first call.
LanguageTables == {<<>>, <<"ar">>, <<"es">>, <<"ar", "es">>, <<"es", "ar">>}

\* The term rows the store can hold before the first call: of any language
\* of the table, imported before or entered and learned since.
StoredTerms(langs) ==
    {[Term(l, e[2], e[1]) EXCEPT !.learned = b] :
        l \in 1..Len(langs),
        e \in UNION {items_of(d) : d \in Accumulators},
        b \in BOOLEAN}

\* One run of the sink on the accumulator: main_async's
\* added, skipped = save_words_to_database(words)
main_async_save ==
    /\ pc = "sink"
    /\ Len(returns) < MaxSaves
    /\ LET r == save_words_to_database(collected, db_url, languages, terms)
       IN  /\ languages' = r.languages
           /\ terms' = r.terms
           /\ returns' = Append(returns, [raised |-> r.raised,
                                          added |-> r.added,
                                          skipped |-> r.skipped])
    /\ UNCHANGED <<prog, pc, txt, expected, collected, visible, before,
                   last_count, stagnant_rounds, loaded_more, strategy, call,
                   settled, exit, header, rows, log, seen, zeroRuns,
                   driverInRound, rounds, extracts, db_url>>

----------------------------------------------------------------------------

Next ==
    \/ main_get_expected
    \/ main_extract
    \/ main_count_check
    \/ main_click
    \/ main_stagnation
    \/ main_write
    \/ scrape_get_expected
    \/ scrape_extract
    \/ scrape_count_check
    \/ scrape_stagnation
    \/ scrape_click
    \/ scrape_clicked_test
    \/ scrape_finish

Spec == Init /\ [][Next]_vars

\* The sink alone, called up to MaxSaves times with one accumulator on a
\* store of any content.
InitStore ==
    /\ prog = "scraper"
    /\ pc = "sink"
    /\ collected \in Accumulators
    /\ LoopInit
    /\ db_url \in BOOLEAN
    /\ languages \in LanguageTables
    /\ terms \in SeqsUpTo(StoredTerms(languages), MaxStored)
    /\ returns = <<>>

NextStore == main_async_save

SpecStore == InitStore /\ [][NextStore]_vars

----------------------------------------------------------------------------
(* Properties *)

PostLoop == pc \in {"write", "finish", "done"}

\* An extraction of this run has returned.
Extracted == collected # <<>> \/ zeroRuns > 0

\* C1: in both loops a round that adds no pair is never run when the 3
\* rounds before it added none: after 3 such rounds in a row (the first
\* rounds of the run included) the loop has stopped.
C1_NoFourthStagnantRound ==
    /\ zeroRuns <= StagnationLimit
    /\ (pc = "extract" => zeroRuns < StagnationLimit)

\* C2: with a known expected total N, once an extraction has brought the
\* accumulator to N or more pairs the loop is at its count test or has left
\* through it (DONE), and the reveal-more driver has not been invoked since
\* that extraction.
C2_CountShortCircuit ==
    (expected # Unknown /\ Extracted /\ Len(collected) >= expected) =>
        /\ pc \in {"count", "write", "finish", "done"}
        /\ (pc # "count" => exit = "DONE")
        /\ ~driverInRound

\* A run that reached a known total in a later round than its first and
\* collected more than the total.
C2_Witness ==
    /\ pc = "done" /\ exit = "DONE"
    /\ before > 0
    /\ Len(collected) > expected

\* C3: the loop is left only through the count test (DONE) or through 3
\* stagnant rounds (STALLED); a driver that returns false does not end it.
C3_OnlyTwoExits == PostLoop => exit \in {"DONE", "STALLED"}

\* C4: a page without a heading that holds a word count gives the expected
\* total "unknown" and the run goes on: nothing is raised, and the loop is
\* never left through the count test while the total is unknown.
C4_UnknownTotalKeepsRunning ==
    /\ exit # "RuntimeError"
    /\ (pc # "start" /\ (txt.kind # "text" \/ first_digit(txt.text) = 0)
            => expected = Unknown)
    /\ (expected = Unknown => exit # "DONE")

\* C5: the accumulator holds exactly the pairs the extractions of the run
\* have returned, each counted once: pairs that share the primary term and
\* differ in the secondary term are all kept.
C5_PairIdentity ==
    /\ items_of(collected) = seen
    /\ Len(collected) = Cardinality(seen)

\* C6: no step removes a pair from the accumulator or lowers its size.
C6_NeverShrinks ==
    [][/\ items_of(collected) \subseteq items_of(collected')
       /\ Len(collected) <= Len(collected')]_vars

\* C7: merging the dict of the last extraction into the accumulator once
\* more leaves the accumulator as it is (same items, same size).
C7_MergeIdempotent ==
    IF prog = "script"
    THEN tuple_update(collected, visible) = collected
    ELSE str_update(collected, visible) = collected

\* A round whose extraction returned pairs that were all merged before.
C7_Witness ==
    /\ pc = "count"
    /\ visible # <<>>
    /\ zeroRuns > 0
    /\ Len(collected) > Len(visible)

\* C8: no pair with an empty or whitespace-only term is returned by an
\* extraction or held by the accumulator, and a list item whose read
\* raises is skipped: the extraction call still returns.
C8_InvalidPairsRejected ==
    /\ \A e \in items_of(visible) \cup items_of(collected) :
          /\ e[1] # <<>> /\ strip(e[1]) = e[1]
          /\ e[2] # <<>> /\ strip(e[2]) = e[2]
    /\ exit # "ReadError"

\* C9: the heading "1,234 words" gives the expected total 1234 and the
\* heading "Words" gives unknown.
C9_ExpectedCountParsing ==
    /\ txt = Text(<<"1", ",", "2", "3", "4", " ", "w", "o", "r", "d", "s">>)
          => expected = 1234
    /\ txt = Text(<<"W", "o", "r", "d", "s">>) => expected = Unknown

\* C10: after the loop the output holds every pair of the accumulator and
\* nothing else, and a known expected total that differs from the final
\* size is reported by a warning.
C10_OutputAndDiscrepancy ==
    pc = "done" =>
        /\ items_of(rows) = items_of(collected)
        /\ Len(rows) = Len(collected)
        /\ (expected # Unknown /\ Len(collected) # expected
                => "WARNING" \in log)

\* C11: the file holds one record for each pair of the accumulator, in
\* strictly ascending order of the tuple (primary, secondary); the pairs
\* (b, two), (a, one), (a, two) are written as (a, one), (a, two), (b, two).
C11_SortedRows ==
    /\ pc = "done" =>
          /\ items_of(rows) = items_of(collected)
          /\ Len(rows) = Cardinality(items_of(collected))
          /\ \A i, j \in 1..Len(rows) : i < j => tuple_lt(rows[i], rows[j])
    /\ sorted(<< <<<<"b">>, <<"t", "w", "o">>>>,
                 <<<<"a">>, <<"o", "n", "e">>>>,
                 <<<<"a">>, <<"t", "w", "o">>>> >>)
          = << <<<<"a">>, <<"o", "n", "e">>>>,
               <<<<"a">>, <<"t", "w", "o">>>>,
               <<<<"b">>, <<"t", "w", "o">>>> >>

\* An accumulator that was filled in the order (b, y), (a, x), (a, y) and
\* has been written.
C11_Witness ==
    /\ pc = "done"
    /\ collected = << <<<<"b">>, <<"y">>>>, <<<<"a">>, <<"x">>>>,
                      <<<<"a">>, <<"y">>>> >>

\* C13: one driver call tries its strategies in their priority order
\* 1, 2, 3 without a gap, performs at most one click, tries nothing after
\* the strategy that clicked, and returns true exactly when it clicked.
C13_FirstSuccessOnly ==
    /\ call.tried = [i \in 1..Len(call.tried) |-> i]
    /\ call.clicks <= 1
    /\ (call.clicks = 1 =>
            /\ call.clicked = call.tried[Len(call.tried)]
            /\ strategy = call.clicked)
    /\ (call.returned => (loaded_more <=> call.clicks = 1))

\* A call whose first strategy found nothing to click and whose second
\* strategy clicked.
C13_Witness ==
    /\ call.returned
    /\ call.tried = <<1, 2>>
    /\ call.clicks = 1
    /\ loaded_more

\* C14: a strategy that raises is passed over: the call goes on to the
\* next strategy, and a call in which no strategy clicks returns false;
\* the call never raises, so it never ends the run.
C14_StrategyErrorsCaught ==
    /\ exit # "DriverError"
    /\ ~call.raised
    /\ \A i \in call.raised_in :
          i = (IF prog = "script" THEN 3 ELSE 2)
              \/ \E k \in 1..Len(call.tried) : call.tried[k] = i + 1
    /\ (driverInRound /\ call.clicks = 0 => call.returned /\ ~loaded_more)

\* C15: the driver is not invoked in a round that ends the loop: in the
\* round that reaches the expected total and in the round that brings the
\* stagnation counter to 3 nothing touches the page after the extraction.
C15_NoDriverInLastRound ==
    exit \in {"DONE", "STALLED"} => ~driverInRound /\ ~settled

\* The stagnation counter has been brought up to date for the last
\* extraction: the round is over and did not end in DONE.
RoundCounted ==
    IF prog = "script"
    THEN pc = "extract" \/ exit = "STALLED"
    ELSE pc \in {"click", "clicked", "extract"}
         \/ exit \in {"STALLED", "NOMORE", "DriverError"}

\* C16: after a driver call the extra scroll and wait has run exactly when
\* the driver returned false and the expected total is unknown.
C16_SettleOnlyWhenUnknown ==
    (driverInRound /\ call.returned) =>
        (settled <=> (~loaded_more /\ expected = Unknown))

\* C16, amended: in the script the extra scroll and wait has run after a
\* driver call exactly when the driver returned false, whether the expected
\* total is known or not; the scraper never runs it.  The step that runs
\* it changes neither the stagnation counter nor the accumulator.
C16_SettleWhenNoAction ==
    [][/\ (driverInRound' /\ call'.returned) =>
              (settled' <=> (prog' = "script" /\ ~loaded_more'))
       /\ (settled' /\ ~settled) =>
              UNCHANGED <<collected, stagnant_rounds>>]_vars

\* The script has settled after a driver call that returned false while
\* the expected total is known.
C16_Witness ==
    /\ prog = "script" /\ pc = "stagnation"
    /\ settled /\ ~loaded_more
    /\ expected # Unknown

\* C17: the stagnation counter lies in 0..3 and, at the end of every round
\* that did not end in DONE (the first round included), equals the number
\* of rounds in a row, up to and including that round, that added no pair.
C17_CounterCountsStagnantRounds ==
    /\ stagnant_rounds \in 0..StagnationLimit
    /\ (RoundCounted => stagnant_rounds = zeroRuns)

\* C18: every driver call follows exactly one extraction and merge of its
\* round, the expected total is only assigned by the first step of the run,
\* no extraction or merge happens once the loop has been left, and the
\* records written are those of the accumulator as the loop left it.
C18_ExtractBeforeReveal ==
    [][/\ (driverInRound' /\ ~driverInRound) =>
              (extracts = 1 /\ extracts' = 1)
       /\ extracts' \in 0..1
       /\ pc # "start" => expected' = expected
       /\ exit # "none" =>
              UNCHANGED <<collected, seen, rounds, extracts, exit>>
       /\ pc' = "done" => items_of(rows') = items_of(collected)]_vars

\* A run of at least three rounds whose last round extracted once and then
\* called the driver has written its records.
C18_Witness ==
    /\ pc = "done"
    /\ rounds >= 3
    /\ extracts = 1 /\ driverInRound
    /\ collected # <<>>
    /\ expected # Unknown

\* C19: a run whose extractions have returned N distinct valid pairs has
\* run at most 3 * (N + 1) extraction rounds.
C19_RoundsBounded == rounds <= StagnationLimit * (Cardinality(seen) + 1)

\* C20: the loop is left as DONE only with a known expected total that the
\* accumulator size has reached, and as STALLED only with an unknown or
\* unreached expected total after 3 rounds in a row that added no pair; a
\* known expected total of 0 ends the loop as DONE in the first round.
C20_TerminalStates ==
    /\ exit = "DONE" =>
          (expected # Unknown /\ Len(collected) >= expected)
    /\ exit = "STALLED" =>
          /\ (expected = Unknown \/ Len(collected) < expected)
          /\ zeroRuns >= StagnationLimit
    /\ (expected = 0 /\ rounds >= 1 /\ pc # "count") =>
          (exit = "DONE" /\ rounds = 1)

\* C12: every call of the store sink that returns gives added + skipped =
\* the accumulator size and leaves the rows stored before it in place; a
\* call after one that returned, with the same accumulator, gives added =
\* 0 and skipped = the accumulator size and leaves the stored terms and
\* languages unchanged.
C12_StoreIdempotent ==
    [][(returns' # returns /\ ~returns'[Len(returns')].raised) =>
          LET ret == returns'[Len(returns')]
          IN  /\ ret.added + ret.skipped = Len(collected)
              /\ Len(terms') = Len(terms) + ret.added
              /\ SubSeq(terms', 1, Len(terms)) = terms
              /\ \A i \in 1..Len(collected) :
                     \E j \in 1..Len(terms') :
                         /\ terms'[j].english_term = collected[i][2]
                         /\ terms'[j].target_language_term = collected[i][1]
                         /\ languages'[terms'[j].language_id] = "ar"
              /\ (returns # <<>> /\ ~returns[Len(returns)].raised) =>
                     /\ ret.added = 0
                     /\ ret.skipped = Len(collected)
                     /\ terms' = terms
                     /\ languages' = languages]_vars

\* The sink has run twice on an accumulator of two pairs: the first run
\* inserted one and skipped the other, the second skipped both.
C12_Witness ==
    /\ pc = "sink"
    /\ Len(collected) = 2
    /\ Len(returns) = 2
    /\ returns[1] = [raised |-> FALSE, added |-> 1, skipped |-> 1]
    /\ returns[2] = [raised |-> FALSE, added |-> 0, skipped |-> 2]

====
